---- MODULE Spec2Model ----
(***************************************************************************)
(* Model of calibrate.py (mmwave-calibrate): the two calibration functions *)
(* coupling_calibration and waveform_calibration, and the command-line     *)
(* program that calls them.                                                *)
(*                                                                         *)
(* Numbers.  Python/numpy floats are modelled by exact fractions <<n, d>>  *)
(* in lowest terms with d > 0; the IEEE non-finite values a division by    *)
(* zero produces are <<1, 0>> (+inf), <<-1, 0>> (-inf) and <<0, 0>> (nan). *)
(* Complex numbers are pairs <<re, im>>.  The small integer inputs used    *)
(* here keep every intermediate value of the code exactly representable,   *)
(* so the fractions are the values (up to the last-bit rounding of a       *)
(* division) the program computes.                                         *)
(***************************************************************************)
EXTENDS Integers, Sequences, FiniteSets, TLC

VARIABLES
    pc,             \* position of the __main__ script
    args,           \* argparse namespace
    ack,            \* answer typed at the confirmation prompt
    calib_context,  \* dict dumped to the cfg JSON
    data_files,     \* binary files written so far, in order
    cfg_files,      \* JSON files written so far, in order
    dirs,           \* directories created by the script
    fn,             \* calibration function being executed
    fpc,            \* position inside that function
    config,         \* waveform_calibration: parsed configuration file
    shape,          \* (ntx, nrx, nc, ns) the frame is reshaped to
    ref,            \* waveform_calibration: kwargs["ref"]
    ref_bins,       \* waveform_calibration: (lo, hi)
    file,           \* bytes of the frame file read by np.fromfile
    frame,          \* array held by the local `frame`
    rfft,           \* range profile
    peaks_idx,      \* argmax over the sliced window, per antenna
    peaks,          \* max over the sliced window, per antenna
    phase_calib,    \* returned phase/amplitude matrix
    freq_calib,     \* returned frequency matrix
    error           \* exception raised by the function, "" if none

vars == <<pc, args, ack, calib_context, data_files, cfg_files, dirs, fn, fpc, config,
          shape, ref, ref_bins, file, frame, rfft, peaks_idx, peaks,
          phase_calib, freq_calib, error>>

mainVars == <<pc, args, ack, calib_context, data_files, cfg_files, dirs>>

callVars == <<fn, fpc, config, shape, ref, ref_bins, file, frame, rfft, peaks_idx,
              peaks, phase_calib, freq_calib, error>>

-----------------------------------------------------------------------------
(* Bounds of the model *)

\* reference distances 0, 1/2, 1, ... MaxRefHalves/2 metres
MaxRefHalves == 4
\* a frame file may carry up to MaxPad bytes beyond a whole frame
MaxPad == 1
\* values of the raw I and Q samples
SampleValues == {-1, 0, 1}

(* Program constants *)

\* speed of light, m/s
C == 299792458
DefaultNumSamples == 256
DefaultNumChirpLoops == 16
DefaultNumTx == 12
DefaultNumRx == 16

\* Python None; strings and paths are sequences of components
None == <<>>

-----------------------------------------------------------------------------
(* Arithmetic *)

Abs(n) == IF n < 0 THEN -n ELSE n
Sign(n) == IF n < 0 THEN -1 ELSE IF n = 0 THEN 0 ELSE 1

RECURSIVE GCD(_, _)
GCD(a, b) == IF b = 0 THEN a ELSE GCD(b, a % b)

\* the float n/d
Float(n, d) ==
    IF d = 0 THEN <<Sign(n), 0>>
    ELSE LET g == GCD(Abs(n), Abs(d))
         IN  <<(Sign(d) * n) \div g, Abs(d) \div g>>

IsFinite(x) == x[2] # 0

\* (a/b) * (c/d) for b, d > 0, cancelling before multiplying
FloatMul(x, y) ==
    LET g1 == GCD(Abs(x[1]), y[2])
        g2 == GCD(Abs(y[1]), x[2])
    IN  Float((x[1] \div g1) * (y[1] \div g2), (x[2] \div g2) * (y[2] \div g1))

\* a*q/p truncated toward zero, p, q > 0 (the product a*q is never formed)
TruncQuot(a, p, q) ==
    LET m == Abs(a)
        t == m * (q \div p) + (m * (q % p)) \div p
    IN  Sign(a) * t

\* Python int(x / y) for floats x and y > 0
IntOfQuotient(x, y) == TruncQuot(x[1], x[2] * y[1], y[2])

FloatAdd(x, k) == Float(x[1] + k * x[2], x[2])

RECURSIVE SeqSum(_)
SeqSum(s) == IF s = <<>> THEN 0 ELSE s[1] + SeqSum(Tail(s))

CAdd(a, b) == <<a[1] + b[1], a[2] + b[2]>>

RECURSIVE CSum(_)
CSum(s) == IF s = <<>> THEN <<0, 0>> ELSE CAdd(s[1], CSum(Tail(s)))

\* z * (-j)^q
CRot(z, q) ==
    CASE q % 4 = 0 -> z
      [] q % 4 = 1 -> <<z[2], -z[1]>>
      [] q % 4 = 2 -> <<-z[1], -z[2]>>
      [] q % 4 = 3 -> <<-z[2], z[1]>>

\* numpy's ordering of complex numbers: real part first, then imaginary
LexLeq(a, b) == a[1] < b[1] \/ (a[1] = b[1] /\ a[2] <= b[2])

MagSq(z) == z[1] * z[1] + z[2] * z[2]

\* numpy complex division a / b
ComplexDiv(a, b) ==
    IF b = <<0, 0>>
    THEN <<Float(a[1], 0), Float(a[2], 0)>>
    ELSE <<Float(a[1] * b[1] + a[2] * b[2], MagSq(b)),
           Float(a[2] * b[1] - a[1] * b[2], MagSq(b))>>

-----------------------------------------------------------------------------
(* Frame files *)

\* two's-complement little-endian bytes of a 16-bit sample
EncodeInt16(v) == LET u == v % 65536 IN <<u % 256, u \div 256>>

RECURSIVE EncodeItems(_)
EncodeItems(items) ==
    IF items = <<>> THEN <<>>
    ELSE EncodeInt16(Head(items)) \o EncodeItems(Tail(items))

\* np.fromfile(filename, dtype=np.int16, count=-1): the whole 16-bit items
\* of the file, a trailing odd byte is not part of any item
FromFile(bytes) ==
    [i \in 1..(Len(bytes) \div 2) |->
        LET u == bytes[2 * i - 1] + 256 * bytes[2 * i]
        IN  IF u >= 32768 THEN u - 65536 ELSE u]

NumItems(shp) == shp[1] * shp[2] * shp[3] * shp[4] * 2

\* ndarray.reshape(ntx, nrx, nc, ns, 2) raises ValueError on a size mismatch
CanReshape(items, shp) == Len(items) = NumItems(shp)

\* Variant of At: I and Q stored as two planes instead of interleaved pairs.
AtPlanar(items, shp, tx, rx, c, s, iq) ==
    items[(iq * (shp[1] * shp[2] * shp[3] * shp[4])
             + (((tx * shp[2] + rx) * shp[3] + c) * shp[4] + s)) + 1]

\* element [tx, rx, c, s, iq] of the reshaped (C-order) array
At(items, shp, tx, rx, c, s, iq) ==
    items[((((tx * shp[2] + rx) * shp[3] + c) * shp[4] + s) * 2 + iq) + 1]

Antennas(shp) == (0..(shp[1] - 1)) \X (0..(shp[2] - 1))

-----------------------------------------------------------------------------
(* coupling_calibration *)

\* np.mean(frame, axis=(2, 3)): array of shape (ntx, nrx, 2)
MeanChirpSample(items, shp) ==
    [a \in Antennas(shp) |->
        [iq \in 0..1 |->
            Float(SeqSum([n \in 1..(shp[3] * shp[4]) |->
                            At(items, shp, a[1], a[2],
                               (n - 1) \div shp[4], (n - 1) % shp[4], iq)]),
                  shp[3] * shp[4])]]

-----------------------------------------------------------------------------
(* waveform_calibration *)

\* rmax = fsample * C / (2 * fslope) with fsample = ksps * 1e3 and
\* fslope = Mhz_us * 1e12, in metres
MaxRange(cfg) ==
    FloatMul(Float(cfg.adcSamplingFrequency_ksps, cfg.frequencySlope_Mhz_us),
             Float(C, 2 * 1000000000))

\* rres = rmax / ns
RangeResolution(cfg) == FloatMul(MaxRange(cfg), Float(1, cfg.numAdcSamples))

\* ref_bins = int((ref - 1) / rres), int((ref + 1) / rres)
RefBins(cfg, r) ==
    LET rres == RangeResolution(cfg)
    IN  <<IntOfQuotient(FloatAdd(r, -1), rres), IntOfQuotient(FloatAdd(r, 1), rres)>>

\* frame[..., 0] + 1j * frame[..., 1]: sample s of chirp c of antenna a
ComplexSample(items, shp, a, c, s) ==
    <<At(items, shp, a[1], a[2], c, s, 0), At(items, shp, a[1], a[2], c, s, 1)>>

\* np.fft.fft(x, ns): X[k] = sum_n x[n] * exp(-2j*pi*n*k/ns).  For the
\* transform lengths 1, 2 and 4 every factor is a power of -j.
FFT(x, ns) ==
    [k \in 1..ns |->
        CSum([n \in 1..ns |-> CRot(x[n], (4 * (n - 1) * (k - 1)) \div ns)])]

\* np.sum(np.fft.fft(frame, ns, -1), -2): per antenna, a sequence of ns bins
RangeProfile(items, shp) ==
    [a \in Antennas(shp) |->
        LET chirp(c) == FFT([s \in 1..shp[4] |->
                                ComplexSample(items, shp, a, c, s - 1)], shp[4])
        IN  [k \in 1..shp[4] |-> CSum([c \in 1..shp[3] |-> chirp(c - 1)[k]])]]

\* start and stop of the Python slice lo:hi on an axis of length n
SliceRange(n, lo, hi) ==
    LET norm(i) == IF i < 0 THEN (IF i + n < 0 THEN 0 ELSE i + n)
                   ELSE (IF i > n THEN n ELSE i)
    IN  <<norm(lo), norm(hi)>>

\* x[lo:hi]
Slice(x, lo, hi) ==
    LET r == SliceRange(Len(x), lo, hi) IN SubSeq(x, r[1] + 1, r[2])

\* np.argmax on a complex sequence: first index (0-based) of the largest
\* element in numpy's ordering of complex numbers
ArgMax(w) ==
    (CHOOSE i \in 1..Len(w) :
        /\ \A j \in 1..Len(w) : LexLeq(w[j], w[i])
        /\ \A j \in 1..(i - 1) : w[j] # w[i]) - 1

\* np.max on a complex sequence
Max(w) == CHOOSE z \in {w[i] : i \in 1..Len(w)} :
              \A j \in 1..Len(w) : LexLeq(w[j], z)

\* peaks = peaks[0, 0] / peaks; phase_calib[..., 0] = real, [..., 1] = imag
PhaseCalib(pk) == [a \in DOMAIN pk |-> ComplexDiv(pk[<<0, 0>>], pk[a])]

\* Variant of DPeakIdx: the reference antenna's index is not subtracted.
DPeakIdxNoReference(idx) == idx

\* dpeak_idx = peaks_idx - peaks_idx[0, 0]
DPeakIdx(idx) == [a \in DOMAIN idx |-> idx[a] - idx[<<0, 0>>]]

\* freq_calib = 2 * pi * (dpeak_idx / ref) * (fsample / fslope), held in
\* units of 2*pi*1e-9 (fsample / fslope = ksps / Mhz_us * 1e-9)
FreqCalib(idx, r, cfg) ==
    [a \in DOMAIN idx |->
        Float(DPeakIdx(idx)[a] * r[2] * cfg.adcSamplingFrequency_ksps,
              r[1] * cfg.frequencySlope_Mhz_us)]

-----------------------------------------------------------------------------
(* Inputs *)

RefValues == {Float(h, 2) : h \in 0..MaxRefHalves}

Config(ntx, nrx, nc, ns, slope, ksps) ==
    [ntx |-> ntx, nrx |-> nrx, numChirpLoops |-> nc, numAdcSamples |-> ns,
     frequencySlope_Mhz_us |-> slope, adcSamplingFrequency_ksps |-> ksps]

\* a file of `values` samples filling the shapes of `shapes`, followed by up
\* to MaxPad further bytes
FrameFiles(shapes, values) ==
    {EncodeItems(items) \o [i \in 1..pad |-> 0] :
        items \in UNION {[1..NumItems(shp) -> values] : shp \in shapes},
        pad \in 0..MaxPad}

\* files that are a whole number of zero bytes, of any length up to a frame
\* of `shp` and MaxPad bytes more
ZeroFiles(shp) == {[i \in 1..n |-> 0] : n \in 0..(2 * NumItems(shp) + MaxPad)}

\* configurations and frame files met by waveform_calibration called on its own
WaveformConfigs ==
    {Config(2, 1, 1, 2, 1000, 10000), Config(2, 1, 1, 2, 4000, 10000),
     Config(1, 2, 1, 2, 1000, 10000), Config(1, 1, 1, 4, 500, 10000),
     Config(1, 1, 2, 2, 2000, 10000), Config(2, 1, 1, 4, 1000, 10000)}
\* every frame of 8 samples, the frames of 16 samples whose I is 0 or 1 and
\* whose Q is 0, and the all-zero files of other lengths
RealItems(n) == {[i \in 1..(2 * n) |-> IF i % 2 = 1 THEN x[(i + 1) \div 2] ELSE 0] :
                    x \in [1..n -> {0, 1}]}
WaveformFiles ==
    {EncodeItems(items) : items \in [1..8 -> SampleValues] \cup RealItems(8)}
        \cup ZeroFiles(<<1, 1, 1, 4>>)

\* shapes and frame files met by coupling_calibration called on its own
CouplingShapes == {<<1, 1, 2, 2>>, <<2, 1, 1, 2>>, <<1, 2, 2, 1>>}
CouplingFiles == WaveformFiles

\* command lines, configurations and files met by the whole program
CliShapes ==
    {<<DefaultNumTx, DefaultNumRx, DefaultNumChirpLoops, DefaultNumSamples>>,
     <<2, 1, 1, 1>>, <<1, 1, 1, 2>>}
CliConfigs ==
    {Config(2, 1, 1, 1, 1000, 10000), Config(1, 1, 1, 2, 1000, 10000)}
CliFiles == FrameFiles({<<2, 1, 1, 1>>}, {0, 1}) \cup ZeroFiles(<<1, 1, 1, 1>>)
Answers == {"y", "Y", "n", "yes", ""}

\* Variant of Lower: every answer is taken for a yes.
LowerAnyAnswer(a) == "y"

\* str.lower on the answers
Lower(a) == IF a = "Y" THEN "y" ELSE a

-----------------------------------------------------------------------------
(* State of a function call *)

NoArray == <<>>

CallInit(f, shp, r) ==
    /\ fn = f
    /\ fpc = "start"
    /\ shape = shp
    /\ ref = r
    /\ config = Config(0, 0, 0, 0, 0, 0)
    /\ ref_bins = <<0, 0>>
    /\ file = <<>>
    /\ frame = NoArray
    /\ rfft = NoArray
    /\ peaks_idx = NoArray
    /\ peaks = NoArray
    /\ phase_calib = NoArray
    /\ freq_calib = NoArray
    /\ error = ""

Call(f, shp, r) ==
    /\ fn' = f
    /\ fpc' = "start"
    /\ shape' = shp
    /\ ref' = r
    /\ UNCHANGED <<config, ref_bins, file, frame, rfft, peaks_idx, peaks,
                   phase_calib, freq_calib, error>>

-----------------------------------------------------------------------------
(* coupling_calibration(filename, ntx, nrx, nc, ns) *)

\* frame = np.fromfile(...).reshape(ntx, nrx, nc, ns, 2)
CouplingLoadFrame(files) ==
    /\ fn = "coupling" /\ fpc = "start"
    /\ \E f \in files :
        /\ file' = f
        /\ IF CanReshape(FromFile(f), shape)
           THEN /\ frame' = FromFile(f)
                /\ fpc' = "loaded"
                /\ error' = error
           ELSE /\ frame' = frame
                /\ fpc' = "raised"
                /\ error' = "ValueError: cannot reshape array"
    /\ UNCHANGED <<fn, config, shape, ref, ref_bins, rfft, peaks_idx, peaks,
                   phase_calib, freq_calib>>
    /\ UNCHANGED mainVars

\* frame = np.mean(frame, axis=(2, 3)); return frame
CouplingMean ==
    /\ fn = "coupling" /\ fpc = "loaded"
    /\ frame' = MeanChirpSample(frame, shape)
    /\ fpc' = "returned"
    /\ UNCHANGED <<fn, config, shape, ref, ref_bins, file, rfft, peaks_idx,
                   peaks, phase_calib, freq_calib, error>>
    /\ UNCHANGED mainVars

-----------------------------------------------------------------------------
(* waveform_calibration(filename, cfg, ref=...) *)

\* config = json.load(fh) ... ref_bins = int((ref - 1) / rres), int(...)
WaveformLoadConfig(configs) ==
    /\ fn = "waveform" /\ fpc = "start"
    /\ \E cfg \in configs :
        /\ config' = cfg
        /\ shape' = <<cfg.ntx, cfg.nrx, cfg.numChirpLoops, cfg.numAdcSamples>>
        /\ ref_bins' = RefBins(cfg, ref)
    /\ fpc' = "configured"
    /\ UNCHANGED <<fn, ref, file, frame, rfft, peaks_idx, peaks, phase_calib,
                   freq_calib, error>>
    /\ UNCHANGED mainVars

\* frame = np.fromfile(...).reshape(...); frame = I + jQ;
\* rfft = np.fft.fft(frame, ns, -1); rfft = np.sum(rfft, -2)
WaveformRangeProfile(files) ==
    /\ fn = "waveform" /\ fpc = "configured"
    /\ \E f \in files :
        /\ file' = f
        /\ IF CanReshape(FromFile(f), shape)
           THEN /\ frame' = FromFile(f)
                /\ rfft' = RangeProfile(FromFile(f), shape)
                /\ fpc' = "transformed"
                /\ error' = error
           ELSE /\ frame' = frame
                /\ rfft' = rfft
                /\ fpc' = "raised"
                /\ error' = "ValueError: cannot reshape array"
    /\ UNCHANGED <<fn, config, shape, ref, ref_bins, peaks_idx, peaks,
                   phase_calib, freq_calib>>
    /\ UNCHANGED mainVars

\* the window rfft[a, lo:hi] of antenna a
Window(a) == Slice(rfft[a], ref_bins[1], ref_bins[2])

\* peaks_idx = np.argmax(rfft[:, :, lo:hi], axis=-1); peaks = np.max(...)
\* (both raise ValueError on an empty window)
WaveformFindPeaks ==
    /\ fn = "waveform" /\ fpc = "transformed"
    /\ IF Window(<<0, 0>>) = <<>>
       THEN /\ fpc' = "raised"
            /\ error' = "ValueError: attempt to get argmax of an empty sequence"
            /\ UNCHANGED <<peaks_idx, peaks>>
       ELSE /\ peaks_idx' = [a \in DOMAIN rfft |-> ArgMax(Window(a))]
            /\ peaks' = [a \in DOMAIN rfft |-> Max(Window(a))]
            /\ fpc' = "peaks"
            /\ error' = error
    /\ UNCHANGED <<fn, config, shape, ref, ref_bins, file, frame, rfft,
                   phase_calib, freq_calib>>
    /\ UNCHANGED mainVars

\* phase_calib and freq_calib; return freq_calib, phase_calib
WaveformCalibrate ==
    /\ fn = "waveform" /\ fpc = "peaks"
    /\ phase_calib' = PhaseCalib(peaks)
    /\ freq_calib' = FreqCalib(peaks_idx, ref, config)
    /\ fpc' = "returned"
    /\ UNCHANGED <<fn, config, shape, ref, ref_bins, file, frame, rfft,
                   peaks_idx, peaks, error>>
    /\ UNCHANGED mainVars

-----------------------------------------------------------------------------
(* The functions called on their own *)

NoMain ==
    /\ pc = "none"
    /\ args = [input |-> None]
    /\ ack = ""
    /\ calib_context = [ntx |-> 0, nrx |-> 0]
    /\ data_files = <<>>
    /\ cfg_files = <<>>
    /\ dirs = {}

InitCoupling ==
    /\ NoMain
    /\ \E shp \in CouplingShapes : CallInit("coupling", shp, Float(0, 1))

NextCoupling ==
    \/ CouplingLoadFrame(CouplingFiles)
    \/ CouplingMean

SpecCoupling == InitCoupling /\ [][NextCoupling]_vars

InitWaveform ==
    /\ NoMain
    /\ \E r \in RefValues : CallInit("waveform", <<0, 0, 0, 0>>, r)

NextWaveform ==
    \/ WaveformLoadConfig(WaveformConfigs)
    \/ WaveformRangeProfile(WaveformFiles)
    \/ WaveformFindPeaks
    \/ WaveformCalibrate

SpecWaveform == InitWaveform /\ [][NextWaveform]_vars

-----------------------------------------------------------------------------
(* The command-line program *)

Falsy(x) == x = None \/ x = <<"">>

\* a command line as parsed by argparse
ArgSpace ==
    [input : {None, <<"">>, <<"data", "frame.bin">>},
     output : {None},
     reference : {None} \cup {<<r>> : r \in RefValues},
     num_samples : {shp[4] : shp \in CliShapes},
     num_chirp_loops : {shp[3] : shp \in CliShapes},
     num_tx : {shp[1] : shp \in CliShapes},
     num_rx : {shp[2] : shp \in CliShapes},
     coupling_calibration : BOOLEAN,
     calibration_config : {None, <<"cfg.json">>},
     waveform_calibration : BOOLEAN]

ArgShape(a) == <<a.num_tx, a.num_rx, a.num_chirp_loops, a.num_samples>>

\* args = parser.parse_args(); calib_context = {"ntx": ..., "nrx": ...}
Init ==
    /\ pc = "start"
    /\ args \in {a \in ArgSpace : ArgShape(a) \in CliShapes}
    /\ ack = ""
    /\ calib_context = [ntx |-> args.num_tx, nrx |-> args.num_rx]
    /\ data_files = <<>>
    /\ cfg_files = <<>>
    /\ dirs = {}
    /\ fn = "none"
    /\ fpc = "idle"
    /\ shape = <<0, 0, 0, 0>>
    /\ ref = Float(0, 1)
    /\ config = Config(0, 0, 0, 0, 0, 0)
    /\ ref_bins = <<0, 0>>
    /\ file = <<>>
    /\ frame = NoArray
    /\ rfft = NoArray
    /\ peaks_idx = NoArray
    /\ peaks = NoArray
    /\ phase_calib = NoArray
    /\ freq_calib = NoArray
    /\ error = ""

\* os.sep.join(input.split(os.sep)[:-1]) + os.sep + "calibration"
DefaultOutput(input) == Append(SubSeq(input, 1, Len(input) - 1), "calibration")

\* if args.input is None: exit(1); default output; os.makedirs
MainCheckInput ==
    /\ pc = "start"
    /\ IF args.input = None
       THEN /\ pc' = "exit1"
            /\ UNCHANGED <<args, dirs>>
       ELSE /\ args' = [args EXCEPT !.output = DefaultOutput(args.input)]
            /\ dirs' = dirs \cup {args'.output}
            /\ pc' = "dispatch"
    /\ UNCHANGED <<ack, calib_context, data_files, cfg_files>>
    /\ UNCHANGED callVars

\* if args.coupling_calibration: ... ack = input(...); coupling_calibration(...)
MainCouplingPrompt ==
    /\ pc = "dispatch"
    /\ args.coupling_calibration
    /\ IF Falsy(args.input)
       THEN /\ pc' = "exit1"
            /\ UNCHANGED ack
            /\ UNCHANGED callVars
       ELSE \E a \in Answers :
            /\ ack' = a
            /\ IF Lower(a) = "y"
               THEN /\ Call("coupling", ArgShape(args), ref)
                    /\ pc' = "coupling_call"
               ELSE /\ pc' = "exit0"
                    /\ UNCHANGED callVars
    /\ UNCHANGED <<args, calib_context, data_files, cfg_files, dirs>>

\* shape (ntx, nrx) of a per-antenna array
ShapeOf(arr) ==
    <<Cardinality({a[1] : a \in DOMAIN arr}), Cardinality({a[2] : a \in DOMAIN arr})>>

\* calib_context["data"] = ...; coupling_calib.astype(np.float32).tofile(...)
MainCouplingWriteData ==
    /\ pc = "coupling_call" /\ fpc = "returned"
    /\ calib_context' = [ntx |-> calib_context.ntx, nrx |-> calib_context.nrx,
                         data |-> "coupling_calibration.bin"]
    /\ data_files' = Append(data_files,
                            [path |-> Append(args.output, calib_context'.data),
                             dtype |-> "float32",
                             shape |-> ShapeOf(frame) \o <<2>>])
    /\ pc' = "coupling_data"
    /\ UNCHANGED <<args, ack, cfg_files, dirs>>
    /\ UNCHANGED callVars

\* json.dump(calib_context, "coupling_cfg.json"); exit(0)
MainCouplingWriteCfg ==
    /\ pc = "coupling_data"
    /\ cfg_files' = Append(cfg_files,
                           [path |-> Append(args.output, "coupling_cfg.json"),
                            content |-> calib_context])
    /\ pc' = "exit0"
    /\ UNCHANGED <<args, ack, calib_context, data_files, dirs>>
    /\ UNCHANGED callVars

\* elif args.waveform_calibration: ... ack = input(...); waveform_calibration(...)
MainWaveformPrompt ==
    /\ pc = "dispatch"
    /\ ~args.coupling_calibration
    /\ args.waveform_calibration
    /\ IF Falsy(args.input) \/ Falsy(args.calibration_config)
          \/ args.reference = None
       THEN /\ pc' = "exit1"
            /\ UNCHANGED ack
            /\ UNCHANGED callVars
       ELSE \E a \in Answers :
            /\ ack' = a
            /\ IF Lower(a) = "y"
               THEN /\ Call("waveform", shape, args.reference[1])
                    /\ pc' = "waveform_call"
               ELSE /\ pc' = "exit0"
                    /\ UNCHANGED callVars
    /\ UNCHANGED <<args, calib_context, data_files, cfg_files, dirs>>

\* calib_context["data"] = {...}; freq_calib.astype(np.float64).tofile(...)
MainWaveformWriteFreq ==
    /\ pc = "waveform_call" /\ fpc = "returned"
    /\ calib_context' = [ntx |-> calib_context.ntx, nrx |-> calib_context.nrx,
                         data |-> [frequency |-> "frequency_calibration.bin",
                                   phase |-> "phase_amp_calibration.bin"]]
    /\ data_files' = Append(data_files,
                            [path |-> Append(args.output,
                                             calib_context'.data.frequency),
                             dtype |-> "float64",
                             shape |-> ShapeOf(freq_calib)])
    /\ pc' = "waveform_freq"
    /\ UNCHANGED <<args, ack, cfg_files, dirs>>
    /\ UNCHANGED callVars

\* phase_calib.astype(np.float64).tofile(...)
MainWaveformWritePhase ==
    /\ pc = "waveform_freq"
    /\ data_files' = Append(data_files,
                            [path |-> Append(args.output,
                                             calib_context.data.phase),
                             dtype |-> "float64",
                             shape |-> ShapeOf(phase_calib) \o <<2>>])
    /\ pc' = "waveform_phase"
    /\ UNCHANGED <<args, ack, calib_context, cfg_files, dirs>>
    /\ UNCHANGED callVars

\* json.dump(calib_context, "waveform_calib_cfg.json"); exit(0)
MainWaveformWriteCfg ==
    /\ pc = "waveform_phase"
    /\ cfg_files' = Append(cfg_files,
                           [path |-> Append(args.output, "waveform_calib_cfg.json"),
                            content |-> calib_context])
    /\ pc' = "exit0"
    /\ UNCHANGED <<args, ack, calib_context, data_files, dirs>>
    /\ UNCHANGED callVars

\* an exception of the called function is not caught: the script ends with
\* a traceback
MainUncaught ==
    /\ pc \in {"coupling_call", "waveform_call"} /\ fpc = "raised"
    /\ pc' = "crash"
    /\ UNCHANGED <<args, ack, calib_context, data_files, cfg_files, dirs>>
    /\ UNCHANGED callVars

\* parser.print_help()
MainHelp ==
    /\ pc = "dispatch"
    /\ ~args.coupling_calibration
    /\ ~args.waveform_calibration
    /\ pc' = "help"
    /\ UNCHANGED <<args, ack, calib_context, data_files, cfg_files, dirs>>
    /\ UNCHANGED callVars

Next ==
    \/ MainCheckInput
    \/ MainCouplingPrompt
    \/ CouplingLoadFrame(CliFiles)
    \/ CouplingMean
    \/ MainCouplingWriteData
    \/ MainCouplingWriteCfg
    \/ MainWaveformPrompt
    \/ WaveformLoadConfig(CliConfigs)
    \/ WaveformRangeProfile(CliFiles)
    \/ WaveformFindPeaks
    \/ WaveformCalibrate
    \/ MainWaveformWriteFreq
    \/ MainWaveformWritePhase
    \/ MainWaveformWriteCfg
    \/ MainUncaught
    \/ MainHelp

Spec == Init /\ [][Next]_vars

-----------------------------------------------------------------------------
(* Properties *)

NumSamples == shape[4]
Lo == ref_bins[1]
Hi == ref_bins[2]
One == <<Float(1, 1), Float(0, 1)>>
Zero == Float(0, 1)

\* the frame file has been read and the reshape attempted
LoadAttempted ==
    \/ fn = "coupling" /\ fpc \in {"loaded", "returned", "raised"}
    \/ fn = "waveform" /\ fpc \in {"transformed", "peaks", "returned", "raised"}

LoadFailed == fpc = "raised" /\ error = "ValueError: cannot reshape array"

PeaksFound == fn = "waveform" /\ fpc \in {"peaks", "returned"}
WaveformReturned == fn = "waveform" /\ fpc = "returned"

\* the window the design asks for
ValidWindow == 0 <= Lo /\ Lo < Hi /\ Hi <= NumSamples

\* C1: in both functions the load succeeds exactly when the file holds
\* ntx*nrx*nc*ns*2*2 bytes, and a failed load returns nothing.
C1_LoadIffExactLength ==
    LoadAttempted =>
        /\ ~LoadFailed <=> Len(file) = 2 * NumItems(shape)
        /\ LoadFailed => fpc # "returned"

\* C2: on a valid window, the peak of every antenna is the window entry at
\* peaks_idx and no bin of the window has a larger magnitude.
C2_PeakIsLargestMagnitude ==
    (PeaksFound /\ ValidWindow) =>
        \A a \in DOMAIN peaks :
            /\ Window(a)[peaks_idx[a] + 1] = peaks[a]
            /\ \A k \in 1..Len(Window(a)) : MagSq(Window(a)[k]) <= MagSq(peaks[a])

\* z * exp(j*q*90deg)
Shifted(z, q) == CRot(z, 3 * q)

\* antenna (1,0) has the spectrum of antenna (0,0) shifted by q*90 degrees
\* (two antennas), and that spectrum has one strongest bin in the window
PhaseShiftCase(q) ==
    /\ WaveformReturned /\ ValidWindow /\ ref[1] # 0
    /\ shape[1] = 2 /\ shape[2] = 1
    /\ \A k \in 1..NumSamples :
          rfft[<<1, 0>>][k] = Shifted(rfft[<<0, 0>>][k], q)
    /\ \E k \in 1..Len(Window(<<0, 0>>)) :
          \A m \in 1..Len(Window(<<0, 0>>)) :
              m # k => MagSq(Window(<<0, 0>>)[m]) < MagSq(Window(<<0, 0>>)[k])

\* C3: with antenna (1,0) shifted by phi in {90, 180, 270} degrees the result
\* is PhaseAmplitudeCalibration(1,0) = (cos(-phi), sin(-phi)) = (-j)^q and
\* FrequencyCalibration(1,0) = 0.
C3_PhaseShiftRecovered ==
    \A q \in 1..3 :
        PhaseShiftCase(q) =>
            /\ phase_calib[<<1, 0>>] =
                   <<Float(CRot(<<1, 0>>, q)[1], 1), Float(CRot(<<1, 0>>, q)[2], 1)>>
            /\ freq_calib[<<1, 0>>] = Zero

\* C4: a result is returned only if no non-reference antenna has a zero
\* peak, and its entries for those antennas are finite.
C4_ZeroPeakRejected ==
    WaveformReturned =>
        \A a \in DOMAIN peaks \ {<<0, 0>>} :
            /\ peaks[a] # <<0, 0>>
            /\ IsFinite(phase_calib[a][1]) /\ IsFinite(phase_calib[a][2])

\* C5: peaks are searched only over a window with 0 <= lo < hi <= nsample.
C5_WindowValidated == PeaksFound => ValidWindow

\* C6: every returned result has PhaseAmplitudeCalibration(0,0) = (1, 0) and
\* FrequencyCalibration(0,0) = 0.
C6_ReferenceEntries ==
    WaveformReturned =>
        /\ phase_calib[<<0, 0>>] = One
        /\ freq_calib[<<0, 0>>] = Zero

\* bins of the full spectrum that the slice lo:hi selects
SelectedBins ==
    {k \in 0..(NumSamples - 1) :
        /\ SliceRange(NumSamples, Lo, Hi)[1] <= k
        /\ k < SliceRange(NumSamples, Lo, Hi)[2]}

\* absolute bin of antenna a's peak in the full spectrum
AbsolutePeakBin(a) ==
    CHOOSE k \in SelectedBins :
        /\ rfft[a][k + 1] = peaks[a]
        /\ \A m \in SelectedBins : m < k => rfft[a][m + 1] # peaks[a]

\* C7: the bin offset in FrequencyCalibration(tx,rx) is the difference of the
\* absolute bins of the two peaks, for every window the code accepts.
C7_OffsetIsAbsoluteDifference ==
    WaveformReturned =>
        \A a \in DOMAIN freq_calib :
            freq_calib[a] =
                Float((AbsolutePeakBin(a) - AbsolutePeakBin(<<0, 0>>))
                          * ref[2] * config.adcSamplingFrequency_ksps,
                      ref[1] * config.frequencySlope_Mhz_us)

\* an accepted window reaching outside the spectrum, not starting at bin 0,
\* in which the two antennas peak in different bins
C7_Witness ==
    /\ WaveformReturned
    /\ Hi > NumSamples
    /\ SliceRange(NumSamples, Lo, Hi)[1] > 0
    /\ shape[1] = 2
    /\ peaks_idx[<<1, 0>>] # peaks_idx[<<0, 0>>]
    /\ peaks_idx[<<0, 0>>] > 0
    /\ peaks[<<0, 0>>] # <<0, 0>> /\ peaks[<<1, 0>>] # <<0, 0>>
    /\ IsFinite(freq_calib[<<1, 0>>])

\* sum of `count` samples of component iq in the block of the flat file
\* items that starts after `start` items
RECURSIVE BlockSum(_, _, _, _)
BlockSum(items, start, count, iq) ==
    IF count = 0 THEN 0
    ELSE items[start + 2 * (count - 1) + iq + 1]
            + BlockSum(items, start, count - 1, iq)

\* C8: the coupling of (tx, rx) is (mean I, mean Q) over the nc*ns samples of
\* that pair's block of the file and of no other.
C8_CouplingIsBlockMean ==
    (fn = "coupling" /\ fpc = "returned") =>
        \A a \in Antennas(shape) : \A iq \in 0..1 :
            frame[a][iq] =
                Float(BlockSum(FromFile(file),
                               (a[1] * shape[2] + a[2]) * shape[3] * shape[4] * 2,
                               shape[3] * shape[4], iq),
                      shape[3] * shape[4])

\* two antennas with different couplings, the first with mean I = 1/2
C8_Witness ==
    /\ fn = "coupling" /\ fpc = "returned"
    /\ shape = <<2, 1, 1, 2>>
    /\ frame[<<0, 0>>] # frame[<<1, 0>>]
    /\ frame[<<0, 0>>][0] = Float(1, 2)
    /\ frame[<<1, 0>>][1] = Float(-1, 1)

Ended == pc \in {"exit0", "exit1", "crash", "help"}

NoOutput == data_files = <<>> /\ cfg_files = <<>>

CompleteOutput ==
    \/ fn = "coupling" /\ Len(data_files) = 1 /\ Len(cfg_files) = 1
    \/ fn = "waveform" /\ Len(data_files) = 2 /\ Len(cfg_files) = 1

\* C9: a file is written only after the answer 'y' or 'Y' and after the
\* function returned; a run that ends has written nothing or everything.
C9_OutputOnlyAfterAckAndReturn ==
    /\ ~NoOutput => (ack \in {"y", "Y"} /\ fpc = "returned")
    /\ (fpc = "raised" \/ (Ended /\ ack \notin {"y", "Y"})) => NoOutput
    /\ Ended => (NoOutput \/ CompleteOutput)

\* a waveform run that answered 'Y' and wrote its three files
C9_Witness ==
    /\ pc = "exit0" /\ fn = "waveform" /\ ack = "Y"
    /\ Len(data_files) = 2 /\ Len(cfg_files) = 1

\* C10: the ntx and nrx written to waveform_calib_cfg.json are the antenna
\* dimensions of the arrays written in the same run.
C10_CfgMatchesArrays ==
    (fn = "waveform" /\ cfg_files # <<>>) =>
        /\ cfg_files[1].content.ntx = data_files[1].shape[1]
        /\ cfg_files[1].content.nrx = data_files[1].shape[2]
        /\ cfg_files[1].content.ntx = data_files[2].shape[1]
        /\ cfg_files[1].content.nrx = data_files[2].shape[2]

====
